---- MODULE Spec2Model ----
(***************************************************************************)
(* The view catalog of one database (src/mongo/db/views/view_catalog.cpp): *)
(* the lazily reloaded view cache, the dependency graph that rejects       *)
(* cyclic or too deep view chains, the reactions registered with the       *)
(* enclosing transaction, and view resolution.                             *)
(*                                                                         *)
(* A namespace string "db.coll" is the pair <<db, coll>>; a NamespaceString *)
(* object is the record [db, coll].  A pipeline is a sequence of stages,   *)
(* a stage the record [name, arg].                                         *)
(***************************************************************************)
EXTENDS Integers, Sequences, FiniteSets, TLC

VARIABLES
    enableViews,            \* the startup-only server parameter
    txnOps,                 \* how many mutations the caller puts in a transaction
    _mutex,                 \* the thread inside a locked section, or "none"
    _viewMap,               \* namespace string -> ViewDefinition
    _valid,                 \* the cache mirrors the durable store
    _viewGraph,             \* set of edges <<view, referenced namespace>>
    _viewGraphNeedsRefresh, \* the graph is stale relative to _viewMap
    durable,                \* the view documents the open transaction sees
    committed,              \* the view documents as last committed
    onRollback,             \* rollback reactions, in registration order
    onCommit,               \* commit reactions, in registration order
    phase,                  \* "idle", "aborting" or "committing"
    fired,                  \* number of reactions already run in this phase
    held,                   \* the ViewDefinition* a reader got from lookup
    last                    \* the last call: operation, arguments' key, result

vars == <<enableViews, txnOps, _mutex, _viewMap, _valid, _viewGraph, _viewGraphNeedsRefresh,
          durable, committed, onRollback, onCommit, phase, fired, held, last>>

-----------------------------------------------------------------------------
(* Bounds of the model.                                                    *)

\* mutating calls one transaction may make before it ends
MaxTxnOps == 1

\* a mutating call registers at most one commit and two rollback reactions
TxnFits(c) ==
    Len(c.onCommit) <= txnOps /\ Len(c.onRollback) <= txnOps + txnOps

-----------------------------------------------------------------------------
(* Namespaces, stages, pipelines.                                          *)

DbName == "db1"
OtherDb == "db2"

ns(nss) == <<nss.db, nss.coll>>

NamespaceString(str) == [db |-> str[1], coll |-> str[2]]

Nss(db, coll) == [db |-> db, coll |-> coll]

\* NamespaceString::validCollectionName: not empty, no '$'.
InvalidCollNames == {"", "x$y"}

validCollectionName(coll) == coll \notin InvalidCollNames

Match1 == [name |-> "$match", arg |-> "s1"]
Match2 == [name |-> "$match", arg |-> "s2"]
CollStats == [name |-> "$collStats", arg |-> ""]
Lookup(coll) == [name |-> "$lookup", arg |-> coll]
Bogus == [name |-> "$bogus", arg |-> ""]

KnownStages == {"$match", "$collStats", "$lookup"}

\* Pipeline::parse: fails on a stage it does not know.
parseOK(pipeline) ==
    \A i \in 1..Len(pipeline) : pipeline[i].name \in KnownStages

\* Pipeline::getInvolvedCollections: the collections the stages read from.
getInvolvedCollections(db, pipeline) ==
    { Nss(db, pipeline[i].arg) :
        i \in { j \in 1..Len(pipeline) : pipeline[j].name = "$lookup" } }

\* the test for a leading $collStats that no pipeline passes
startsWithCollStats_Never(pipeline) == Len(pipeline) < 0

\* toPrepend.size() > 0 && !toPrepend[0]["$collStats"].eoo()
startsWithCollStats(pipeline) ==
    Len(pipeline) > 0 /\ pipeline[1].name = "$collStats"

-----------------------------------------------------------------------------
(* View definitions and view documents.                                    *)

ViewDefinition(db, coll, viewOnColl, pipeline) ==
    [db |-> db, coll |-> coll, viewOn |-> viewOnColl, pipeline |-> pipeline]

defName(def) == Nss(def.db, def.coll)

defViewOn(def) == Nss(def.db, def.viewOn)

\* BSON("_id" << viewName.ns() << "viewOn" << viewOn.coll() << "pipeline" << pipeline)
ViewDoc(viewName, viewOn, pipeline) ==
    [_id |-> ns(viewName), viewOn |-> viewOn.coll, pipeline |-> pipeline]

\* the definition the reload callback builds from a view document
DefOfDoc(doc) ==
    LET viewName == NamespaceString(doc._id)
    IN  ViewDefinition(viewName.db, viewName.coll, doc.viewOn, doc.pipeline)

NoView == [db |-> "", coll |-> "", viewOn |-> "", pipeline |-> <<>>]

EmptyMap == [k \in {} |-> NoView]

MapPut(m, k, v) == [x \in DOMAIN m \cup {k} |-> IF x = k THEN v ELSE m[x]]

MapErase(m, k) == [x \in DOMAIN m \ {k} |-> m[x]]

-----------------------------------------------------------------------------
(* The catalog as one record, so that a handler is a function of it.       *)
(* freed: the keys whose ViewDefinition object the call has destroyed      *)
(* (the map held the only shared_ptr to it).                               *)

Catalog ==
    [viewMap |-> _viewMap, valid |-> _valid, viewGraph |-> _viewGraph,
     needsRefresh |-> _viewGraphNeedsRefresh, durable |-> durable,
     onRollback |-> onRollback, onCommit |-> onCommit, freed |-> {}]

OK == "OK"

\* What a call cannot decide by itself: whether the store's iteration fails
\* and after which documents (loaded), and which cached views a graph
\* refresh visits before the first one whose pipeline does not parse
\* (visited; the map's iteration order is unspecified).
EnvOK == [iterate |-> OK, loaded |-> {}, visited |-> {}]

-----------------------------------------------------------------------------
(* ViewGraph.                                                              *)

kMaxViewDepth == 3

graphRemove(graph, name) == { e \in graph : e[1] # ns(name) }

insertWithoutValidating(graph, name, refs) ==
    graph \cup { <<ns(name), ns(r)>> : r \in refs }

\* The bounded walk from a node: some path leaves more than kMaxViewDepth
\* hops behind it (a cycle is a path that never ends).
RECURSIVE tooDeep(_, _, _)
tooDeep(graph, node, depth) ==
    \/ depth > kMaxViewDepth
    \/ \E e \in graph : e[1] = node /\ tooDeep(graph, e[2], depth + 1)

insertAndValidate(graph, name, refs) ==
    LET inserted == insertWithoutValidating(graph, name, refs)
    IN  IF tooDeep(inserted, ns(name), 0)
        THEN [graph |-> graph, status |-> "GraphCycleOrTooDeep"]
        ELSE [graph |-> inserted, status |-> OK]

-----------------------------------------------------------------------------
(* ViewCatalog.                                                            *)

\* the reload that does not clear the cache before it iterates the store
_reloadIfNeeded_NoClear(c, env) ==
    IF c.valid
    THEN [c |-> c, status |-> OK]
    ELSE LET keys == IF env.iterate = OK
                     THEN DOMAIN c.durable
                     ELSE env.loaded \cap DOMAIN c.durable
         IN  [c |-> [c EXCEPT !.viewMap =
                                [k \in DOMAIN c.viewMap \cup keys |->
                                    IF k \in keys THEN DefOfDoc(c.durable[k])
                                    ELSE c.viewMap[k]],
                              !.valid = (env.iterate = OK)],
              status |-> env.iterate]

_reloadIfNeeded_inlock(c, env) ==
    IF c.valid
    THEN [c |-> c, status |-> OK]
    ELSE LET keys == IF env.iterate = OK
                     THEN DOMAIN c.durable
                     ELSE env.loaded \cap DOMAIN c.durable
             loaded == [k \in { ns(defName(DefOfDoc(c.durable[d]))) : d \in keys }
                          |-> DefOfDoc(c.durable[k])]
         IN  [c |-> [c EXCEPT !.viewMap = loaded,
                              !.freed = @ \cup DOMAIN c.viewMap,
                              !.valid = (env.iterate = OK)],
              status |-> env.iterate]

reloadIfNeeded(c, env) == _reloadIfNeeded_inlock(c, env)

\* uassertStatusOK: a failed reload leaves the call by an exception.
_lookup_inlock(c, env, key) ==
    LET r == _reloadIfNeeded_inlock(c, env)
    IN  IF r.status # OK
        THEN [c |-> r.c, status |-> r.status, found |-> FALSE, view |-> NoView]
        ELSE IF key \in DOMAIN r.c.viewMap
             THEN [c |-> r.c, status |-> OK, found |-> TRUE, view |-> r.c.viewMap[key]]
             ELSE [c |-> r.c, status |-> OK, found |-> FALSE, view |-> NoView]

\* doInsert that never validates
doInsert_Unvalidated(graph, viewDef, needsValidation) ==
    [graph |-> insertWithoutValidating(graph, defName(viewDef),
                    getInvolvedCollections(viewDef.db, viewDef.pipeline)
                        \cup {defViewOn(viewDef)}),
     status |-> OK]

doInsert(graph, viewDef, needsValidation) ==
    IF ~parseOK(viewDef.pipeline)
    THEN [graph |-> graph,
          status |-> IF needsValidation THEN "Location40255" ELSE "PipelineParseError"]
    ELSE LET refs == getInvolvedCollections(viewDef.db, viewDef.pipeline)
                        \cup {defViewOn(viewDef)}
         IN  IF needsValidation
             THEN insertAndValidate(graph, defName(viewDef), refs)
             ELSE [graph |-> insertWithoutValidating(graph, defName(viewDef), refs),
                   status |-> OK]

\* the refresh that gives up the stale mark even when it stopped half way
refreshGraph_ForgetsFailure(c, env) ==
    LET bad == { k \in DOMAIN c.viewMap : ~parseOK(c.viewMap[k].pipeline) }
        done == IF bad = {} THEN DOMAIN c.viewMap
                ELSE (env.visited \cap DOMAIN c.viewMap) \ bad
        graph == UNION { doInsert({}, c.viewMap[k], FALSE).graph : k \in done }
    IN  [c |-> [c EXCEPT !.viewGraph = graph, !.needsRefresh = FALSE],
         status |-> IF bad = {} THEN OK ELSE "PipelineParseError"]

\* The loop over _viewMap of the refresh: every cached view is inserted, or
\* the loop stops at the first view that does not parse.
refreshGraph(c, env) ==
    LET bad == { k \in DOMAIN c.viewMap : ~parseOK(c.viewMap[k].pipeline) }
        done == IF bad = {} THEN DOMAIN c.viewMap
                ELSE (env.visited \cap DOMAIN c.viewMap) \ bad
        graph == UNION { doInsert({}, c.viewMap[k], FALSE).graph : k \in done }
    IN  IF bad = {}
        THEN [c |-> [c EXCEPT !.viewGraph = graph, !.needsRefresh = FALSE],
              status |-> OK]
        ELSE [c |-> [c EXCEPT !.viewGraph = graph], status |-> "PipelineParseError"]

_upsertIntoGraph(c, env, viewDef) ==
    LET r == IF c.needsRefresh THEN refreshGraph(c, env) ELSE [c |-> c, status |-> OK]
    IN  IF r.status # OK
        THEN r
        ELSE LET removed == graphRemove(r.c.viewGraph, defName(viewDef))
                 ins == doInsert(removed, viewDef, TRUE)
             IN  [c |-> [r.c EXCEPT !.viewGraph = ins.graph], status |-> ins.status]

EraseOnRollback(key) == [kind |-> "erase", key |-> key, saved |-> NoView]
RestoreOnRollback(key, saved) == [kind |-> "restore", key |-> key, saved |-> saved]
RestoreStaleOnRollback(key, saved) == [kind |-> "restoreStale", key |-> key, saved |-> saved]
SetValidOnCommit == [kind |-> "setValid"]

\* the shared path with the upsert into the store made before the graph check
_createOrUpdateView_UpsertFirst(c, env, viewName, viewOn, pipeline) ==
    LET g == _upsertIntoGraph(c, env,
                 ViewDefinition(viewName.db, viewName.coll, viewOn.coll, pipeline))
        written == [g.c EXCEPT !.durable =
                        MapPut(@, ns(viewName), ViewDoc(viewName, viewOn, pipeline))]
    IN  IF g.status # OK
        THEN [c |-> written, status |-> g.status]
        ELSE [c |-> [written EXCEPT
                       !.viewMap = MapPut(@, ns(viewName),
                           ViewDefinition(viewName.db, viewName.coll,
                                          viewOn.coll, pipeline)),
                       !.onRollback = Append(@, EraseOnRollback(ns(viewName))),
                       !.onCommit = Append(@, SetValidOnCommit)],
              status |-> OK]

_createOrUpdateView_inlock(c, env, viewName, viewOn, pipeline) ==
    IF ~c.valid
    THEN [c |-> c, status |-> "InvariantFailure"]
    ELSE LET viewDef == ViewDoc(viewName, viewOn, pipeline)
             view == ViewDefinition(viewName.db, viewName.coll, viewOn.coll, pipeline)
             g == _upsertIntoGraph(c, env, view)
         IN  IF g.status # OK
             THEN g
             ELSE [c |-> [g.c EXCEPT
                            !.durable = MapPut(@, ns(viewName), viewDef),
                            !.viewMap = MapPut(@, ns(viewName), view),
                            !.freed = @ \cup ({ns(viewName)} \cap DOMAIN g.c.viewMap),
                            !.onRollback = Append(@, EraseOnRollback(ns(viewName))),
                            !.onCommit = Append(@, SetValidOnCommit)],
                   status |-> OK]

\* createView with the same-database check in front of the feature check
createView_ArgsFirst(c, env, viewName, viewOn, pipeline) ==
    IF viewName.db # viewOn.db
    THEN [c |-> c, status |-> "BadValue"]
    ELSE IF ~enableViews
    THEN [c |-> c, status |-> "CommandNotSupported"]
    ELSE LET l == _lookup_inlock(c, env, ns(viewName))
         IN  IF l.found
             THEN [c |-> l.c, status |-> "NamespaceExists"]
             ELSE IF ~validCollectionName(viewOn.coll)
             THEN [c |-> l.c, status |-> "InvalidNamespace"]
             ELSE _createOrUpdateView_inlock(l.c, env, viewName, viewOn, pipeline)

createView(c, env, viewName, viewOn, pipeline) ==
    IF ~enableViews
    THEN [c |-> c, status |-> "CommandNotSupported"]
    ELSE IF viewName.db # viewOn.db
    THEN [c |-> c, status |-> "BadValue"]
    ELSE LET l == _lookup_inlock(c, env, ns(viewName))
         IN  IF l.status # OK
             THEN [c |-> l.c, status |-> l.status]
             ELSE IF l.found
             THEN [c |-> l.c, status |-> "NamespaceExists"]
             ELSE IF ~validCollectionName(viewOn.coll)
             THEN [c |-> l.c, status |-> "InvalidNamespace"]
             ELSE _createOrUpdateView_inlock(l.c, env, viewName, viewOn, pipeline)

\* modifyView with the lookup moved in front of the same-database check
modifyView_LookupFirst(c, env, viewName, viewOn, pipeline) ==
    LET l == _lookup_inlock(c, env, ns(viewName))
    IN  IF viewName.db # viewOn.db
        THEN [c |-> l.c, status |-> "BadValue"]
        ELSE IF ~l.found
        THEN [c |-> l.c, status |-> "NamespaceNotFound"]
        ELSE IF ~validCollectionName(viewOn.coll)
        THEN [c |-> l.c, status |-> "InvalidNamespace"]
        ELSE _createOrUpdateView_inlock(
                 [l.c EXCEPT !.onRollback =
                     Append(@, RestoreOnRollback(ns(viewName), l.view))],
                 env, viewName, viewOn, pipeline)

modifyView(c, env, viewName, viewOn, pipeline) ==
    IF viewName.db # viewOn.db
    THEN [c |-> c, status |-> "BadValue"]
    ELSE LET l == _lookup_inlock(c, env, ns(viewName))
         IN  IF l.status # OK
             THEN [c |-> l.c, status |-> l.status]
             ELSE IF ~l.found
             THEN [c |-> l.c, status |-> "NamespaceNotFound"]
             ELSE IF ~validCollectionName(viewOn.coll)
             THEN [c |-> l.c, status |-> "InvalidNamespace"]
             ELSE LET savedDefinition == l.view
                      registered ==
                          [l.c EXCEPT !.onRollback =
                              Append(@, RestoreOnRollback(ns(viewName), savedDefinition))]
                  IN  _createOrUpdateView_inlock(registered, env, viewName, viewOn, pipeline)

\* dropView from the copy of the definition on: the assertion, the remove from
\* store, graph and cache, and the two reactions.
dropFound(c, viewName, savedDefinition) ==
    IF ~c.valid
    THEN [c |-> c, status |-> "InvariantFailure"]
    ELSE [c |-> [c EXCEPT
                   !.durable = MapErase(@, ns(viewName)),
                   !.viewGraph = graphRemove(@, defName(savedDefinition)),
                   !.viewMap = MapErase(@, ns(viewName)),
                   !.freed = @ \cup {ns(viewName)},
                   !.onRollback = Append(@,
                       RestoreStaleOnRollback(ns(viewName), savedDefinition)),
                   !.onCommit = Append(@, SetValidOnCommit)],
          status |-> OK]

dropView(c, env, viewName) ==
    LET l == _lookup_inlock(c, env, ns(viewName))
    IN  IF l.status # OK
        THEN [c |-> l.c, status |-> l.status]
        ELSE IF ~l.found
        THEN [c |-> l.c, status |-> "NamespaceNotFound"]
        ELSE dropFound(l.c, viewName, l.view)

lookup(c, env, key) == _lookup_inlock(c, env, key)

\* the loop with each view's stages put behind the stages gathered so far
RECURSIVE resolveLoop_Appending(_, _, _, _, _)
resolveLoop_Appending(c, env, resolvedNss, resolvedPipeline, i) ==
    IF i >= kMaxViewDepth
    THEN [c |-> c, status |-> "ViewDepthLimitExceeded",
          nss |-> resolvedNss, pipeline |-> resolvedPipeline]
    ELSE LET l == _lookup_inlock(c, env, ns(resolvedNss))
         IN  IF ~l.found
             THEN [c |-> l.c, status |-> OK,
                   nss |-> resolvedNss, pipeline |-> resolvedPipeline]
             ELSE IF startsWithCollStats(l.view.pipeline)
             THEN [c |-> l.c, status |-> OK, nss |-> defViewOn(l.view),
                   pipeline |-> resolvedPipeline \o l.view.pipeline]
             ELSE resolveLoop_Appending(l.c, env, defViewOn(l.view),
                                        resolvedPipeline \o l.view.pipeline, i + 1)

\* The loop of resolveView from its i-th round on.
RECURSIVE resolveLoop(_, _, _, _, _)
resolveLoop(c, env, resolvedNss, resolvedPipeline, i) ==
    IF i >= kMaxViewDepth
    THEN [c |-> c, status |-> "ViewDepthLimitExceeded",
          nss |-> resolvedNss, pipeline |-> resolvedPipeline]
    ELSE LET l == _lookup_inlock(c, env, ns(resolvedNss))
         IN  IF l.status # OK
             THEN [c |-> l.c, status |-> l.status,
                   nss |-> resolvedNss, pipeline |-> resolvedPipeline]
             ELSE IF ~l.found
             THEN [c |-> l.c, status |-> OK,
                   nss |-> resolvedNss, pipeline |-> resolvedPipeline]
             ELSE LET toPrepend == l.view.pipeline
                      prepended == toPrepend \o resolvedPipeline
                  IN  IF startsWithCollStats(toPrepend)
                      THEN [c |-> l.c, status |-> OK,
                            nss |-> defViewOn(l.view), pipeline |-> prepended]
                      ELSE resolveLoop(l.c, env, defViewOn(l.view), prepended, i + 1)

resolveView(c, env, nss) == resolveLoop(c, env, nss, <<>>, 0)

\* the reactions with dropView's reaction forgetting to mark the graph stale
runRollback_DropKeepsFresh(c, reaction) ==
    IF reaction.kind = "erase"
    THEN [c EXCEPT !.viewMap = MapErase(@, reaction.key),
                   !.freed = @ \cup ({reaction.key} \cap DOMAIN c.viewMap),
                   !.needsRefresh = TRUE]
    ELSE [c EXCEPT !.viewMap = MapPut(@, reaction.key, reaction.saved),
                   !.freed = @ \cup ({reaction.key} \cap DOMAIN c.viewMap)]

\* The reactions, as the host runs one.
runRollback(c, reaction) ==
    IF reaction.kind = "erase"
    THEN [c EXCEPT !.viewMap = MapErase(@, reaction.key),
                   !.freed = @ \cup ({reaction.key} \cap DOMAIN c.viewMap),
                   !.needsRefresh = TRUE]
    ELSE IF reaction.kind = "restore"
    THEN [c EXCEPT !.viewMap = MapPut(@, reaction.key, reaction.saved),
                   !.freed = @ \cup ({reaction.key} \cap DOMAIN c.viewMap)]
    ELSE [c EXCEPT !.needsRefresh = TRUE,
                   !.viewMap = MapPut(@, reaction.key, reaction.saved),
                   !.freed = @ \cup ({reaction.key} \cap DOMAIN c.viewMap)]

runCommit(c, reaction) == [c EXCEPT !.valid = TRUE]

-----------------------------------------------------------------------------
(* The state machine.                                                      *)

NoKey == <<"", "">>

NoHandle == [has |-> FALSE, key |-> NoKey, live |-> TRUE]

NoCall == [op |-> "none", key |-> NoKey, status |-> OK,
           view |-> NoView, nss |-> Nss("", ""), pipeline |-> <<>>]

Call(op, status) == [NoCall EXCEPT !.op = op, !.status = status]

InFlight == onRollback # <<>> \/ onCommit # <<>>

\* A pointer handed out earlier dangles once its object is destroyed.
heldAfter(h, freed) ==
    IF h.has /\ h.key \in freed THEN [h EXCEPT !.live = FALSE] ELSE h

\* The catalog's fields after a call.
Install(c) ==
    /\ _viewMap' = c.viewMap
    /\ _valid' = c.valid
    /\ _viewGraph' = c.viewGraph
    /\ _viewGraphNeedsRefresh' = c.needsRefresh
    /\ durable' = c.durable
    /\ onRollback' = c.onRollback
    /\ onCommit' = c.onCommit

\* The catalog as constructed, over a store that holds the documents of
\* `store`.
InitOverFor(store, ops) ==
    /\ txnOps = ops
    /\ _mutex = "none"
    /\ _viewMap = EmptyMap
    /\ _valid = FALSE
    /\ _viewGraph = {}
    /\ _viewGraphNeedsRefresh = TRUE
    /\ durable = store
    /\ committed = store
    /\ onRollback = <<>>
    /\ onCommit = <<>>
    /\ phase = "idle"
    /\ fired = 0
    /\ held = NoHandle
    /\ last = NoCall

\* The catalog as constructed, for callers that put at most MaxTxnOps
\* mutations in a transaction.
InitOver(store) == InitOverFor(store, MaxTxnOps)

CreateView(viewName, viewOn, pipeline, env) ==
    LET r == createView(Catalog, env, viewName, viewOn, pipeline)
    IN  /\ phase = "idle"
        /\ TxnFits(r.c)
        /\ Install(r.c)
        /\ held' = heldAfter(held, r.c.freed)
        /\ last' = Call("createView", r.status)
        /\ UNCHANGED <<enableViews, txnOps, _mutex, committed, phase, fired>>

ModifyView(viewName, viewOn, pipeline, env) ==
    LET r == modifyView(Catalog, env, viewName, viewOn, pipeline)
    IN  /\ phase = "idle"
        /\ TxnFits(r.c)
        /\ Install(r.c)
        /\ held' = heldAfter(held, r.c.freed)
        /\ last' = Call("modifyView", r.status)
        /\ UNCHANGED <<enableViews, txnOps, _mutex, committed, phase, fired>>

DropView(viewName, env) ==
    LET r == dropView(Catalog, env, viewName)
    IN  /\ phase = "idle"
        /\ TxnFits(r.c)
        /\ Install(r.c)
        /\ held' = heldAfter(held, r.c.freed)
        /\ last' = Call("dropView", r.status)
        /\ UNCHANGED <<enableViews, txnOps, _mutex, committed, phase, fired>>

\* keep: the caller keeps the returned pointer after the call.
LookupView(key, env, keep) ==
    LET r == lookup(Catalog, env, key)
    IN  /\ phase = "idle"
        /\ Install(r.c)
        /\ held' = IF keep /\ r.found
                    THEN [has |-> TRUE, key |-> key, live |-> TRUE]
                    ELSE heldAfter(held, r.c.freed)
        /\ last' = [Call("lookup", r.status) EXCEPT !.key = key, !.view = r.view]
        /\ UNCHANGED <<enableViews, txnOps, _mutex, committed, phase, fired>>

ResolveView(nss, env) ==
    LET r == resolveView(Catalog, env, nss)
    IN  /\ phase = "idle"
        /\ Install(r.c)
        /\ held' = heldAfter(held, r.c.freed)
        /\ last' = [Call("resolveView", r.status)
                        EXCEPT !.key = ns(nss), !.nss = r.nss, !.pipeline = r.pipeline]
        /\ UNCHANGED <<enableViews, txnOps, _mutex, committed, phase, fired>>

ReloadIfNeeded(env) ==
    LET r == reloadIfNeeded(Catalog, env)
    IN  /\ phase = "idle"
        /\ ~_valid
        /\ Install(r.c)
        /\ held' = heldAfter(held, r.c.freed)
        /\ last' = Call("reloadIfNeeded", r.status)
        /\ UNCHANGED <<enableViews, txnOps, _mutex, committed, phase, fired>>

\* ViewCatalog::invalidate(): the signal takes no lock.
Invalidate ==
    /\ _valid
    /\ _valid' = FALSE
    /\ UNCHANGED <<enableViews, txnOps, _mutex, _viewMap, _viewGraph, _viewGraphNeedsRefresh, durable,
                   committed, onRollback, onCommit, phase, fired, held, last>>

\* Another writer changes the stored view documents and signals the catalog;
\* the database lock keeps it out while a transaction is in flight.
ExternalWrite(key, doc, remove) ==
    /\ phase = "idle"
    /\ ~InFlight
    /\ IF remove THEN key \in DOMAIN durable ELSE doc._id = key
    /\ durable' = IF remove THEN MapErase(durable, key) ELSE MapPut(durable, key, doc)
    /\ durable' # durable
    /\ committed' = durable'
    /\ _valid' = FALSE
    /\ UNCHANGED <<enableViews, txnOps, _mutex, _viewMap, _viewGraph, _viewGraphNeedsRefresh,
                   onRollback, onCommit, phase, fired, held, last>>

\* The transaction aborts: the store's writes are undone, then the rollback
\* reactions run one by one in registration order.
AbortStep ==
    /\ phase \in {"idle", "aborting"}
    /\ InFlight
    /\ IF fired < Len(onRollback)
       THEN LET c == runRollback([Catalog EXCEPT !.durable = committed],
                                 onRollback[fired + 1])
            IN  /\ Install([c EXCEPT !.onRollback = onRollback, !.onCommit = onCommit])
                /\ held' = heldAfter(held, c.freed)
                /\ phase' = "aborting"
                /\ fired' = fired + 1
                /\ UNCHANGED <<enableViews, txnOps, _mutex, committed, last>>
       ELSE /\ onRollback' = <<>>
            /\ onCommit' = <<>>
            /\ phase' = "idle"
            /\ fired' = 0
            /\ durable' = committed
            /\ last' = Call("abort", OK)
            /\ UNCHANGED <<enableViews, txnOps, _mutex, _viewMap, _valid, _viewGraph,
                           _viewGraphNeedsRefresh, committed, held>>

\* The transaction commits: the store's writes become durable, then the
\* commit reactions run one by one in registration order.
CommitStep ==
    /\ phase \in {"idle", "committing"}
    /\ InFlight
    /\ IF fired < Len(onCommit)
       THEN LET c == runCommit(Catalog, onCommit[fired + 1])
            IN  /\ Install(c)
                /\ committed' = durable
                /\ phase' = "committing"
                /\ fired' = fired + 1
                /\ UNCHANGED <<enableViews, txnOps, _mutex, held, last>>
       ELSE /\ onRollback' = <<>>
            /\ onCommit' = <<>>
            /\ phase' = "idle"
            /\ fired' = 0
            /\ committed' = durable
            /\ last' = Call("commit", OK)
            /\ UNCHANGED <<enableViews, txnOps, _mutex, _viewMap, _valid, _viewGraph,
                           _viewGraphNeedsRefresh, durable, held>>

\* The reader lets go of its pointer.
Release ==
    /\ held.has
    /\ held' = NoHandle
    /\ UNCHANGED <<enableViews, txnOps, _mutex, _viewMap, _valid, _viewGraph, _viewGraphNeedsRefresh,
                   durable, committed, onRollback, onCommit, phase, fired, last>>

\* lookup in a reader's thread, first half: stdx::lock_guard takes _mutex.
ReaderLocks ==
    /\ _mutex = "none"
    /\ _mutex' = "reader"
    /\ UNCHANGED <<enableViews, txnOps, _viewMap, _valid, _viewGraph, _viewGraphNeedsRefresh,
                   durable, committed, onRollback, onCommit, phase, fired, held, last>>

\* lookup in a reader's thread, second half: _lookup_inlock, then the guard
\* lets go of _mutex.
ReaderLooksUp(key, env) ==
    LET r == lookup(Catalog, env, key)
    IN  /\ _mutex = "reader"
        /\ _mutex' = "none"
        /\ Install(r.c)
        /\ held' = heldAfter(held, r.c.freed)
        /\ last' = [Call("lookup", r.status) EXCEPT !.key = key, !.view = r.view]
        /\ UNCHANGED <<enableViews, txnOps, committed, phase, fired>>

\* createView or dropView in the writer's thread up to the return of
\* _lookup_inlock, for the calls that go on from there: the name is free for
\* a create, a view for a drop. The lock_guard keeps _mutex.
WriterLooksUp(op, viewName, env) ==
    LET l == _lookup_inlock(Catalog, env, ns(viewName))
    IN  /\ _mutex = "none"
        /\ phase = "idle"
        /\ l.status = OK
        /\ l.found = (op = "dropView")
        /\ op = "createView" => enableViews
        /\ _mutex' = "writer"
        /\ Install(l.c)
        /\ held' = heldAfter(held, l.c.freed)
        /\ last' = [Call(op, "Pending") EXCEPT !.key = ns(viewName), !.view = l.view]
        /\ UNCHANGED <<enableViews, txnOps, committed, phase, fired>>

\* createView from the return of _lookup_inlock on.
CreateContinues(viewName, viewOn, pipeline, env) ==
    LET r == _createOrUpdateView_inlock(Catalog, env, viewName, viewOn, pipeline)
    IN  /\ _mutex = "writer"
        /\ last.op = "createView" /\ last.status = "Pending" /\ last.key = ns(viewName)
        /\ viewName.db = viewOn.db
        /\ validCollectionName(viewOn.coll)
        /\ TxnFits(r.c)
        /\ _mutex' = "none"
        /\ Install(r.c)
        /\ held' = heldAfter(held, r.c.freed)
        /\ last' = Call("createView", r.status)
        /\ UNCHANGED <<enableViews, txnOps, committed, phase, fired>>

\* dropView from the return of _lookup_inlock on.
DropContinues(viewName) ==
    LET r == dropFound(Catalog, viewName, last.view)
    IN  /\ _mutex = "writer"
        /\ last.op = "dropView" /\ last.status = "Pending" /\ last.key = ns(viewName)
        /\ TxnFits(r.c)
        /\ _mutex' = "none"
        /\ Install(r.c)
        /\ held' = heldAfter(held, r.c.freed)
        /\ last' = Call("dropView", r.status)
        /\ UNCHANGED <<enableViews, txnOps, committed, phase, fired>>

\* An operation of the writer's thread: its lock_guard waits for _mutex.
Locked(op) == _mutex = "none" /\ op

-----------------------------------------------------------------------------------------------------------------------------------------------------
(* The catalog under every operation.                                      *)

ViewNames == {"a", "b"}
NameInputs == { Nss(DbName, v) : v \in ViewNames }
ViewOnInputs ==
    { Nss(DbName, x) : x \in ViewNames \cup {""} } \cup { Nss(OtherDb, "c0") }

\* the (viewOn, pipeline) pairs a create or modify is called with
DefInputs == { [viewOn |-> t, pipeline |-> <<>>] : t \in ViewOnInputs }

StoreOf(docs) == [k \in { d._id : d \in docs } |-> CHOOSE d \in docs : d._id = k]

\* what the store holds when the catalog is constructed
StoreInputs ==
    { EmptyMap,
      StoreOf({ ViewDoc(Nss(DbName, "a"), Nss(DbName, "c0"), <<Match1>>),
                ViewDoc(Nss(DbName, "b"), Nss(DbName, "a"), <<>>) }) }

Init ==
    /\ enableViews = TRUE
    /\ \E store \in StoreInputs : InitOver(store)

Next ==
    \/ \E n \in NameInputs, d \in DefInputs :
            CreateView(n, d.viewOn, d.pipeline, EnvOK)
    \/ \E n \in NameInputs, d \in DefInputs :
            ModifyView(n, d.viewOn, d.pipeline, EnvOK)
    \/ \E n \in NameInputs : DropView(n, EnvOK)
    \/ \E n \in NameInputs : LookupView(ns(n), EnvOK, FALSE)
    \/ ReloadIfNeeded(EnvOK)
    \/ Invalidate
    \/ AbortStep
    \/ CommitStep

Spec == Init /\ [][Next]_vars

-----------------------------------------------------------------------------
(* The catalog of a server started with view support disabled.             *)

InitDisabled ==
    /\ enableViews = FALSE
    /\ \E store \in StoreInputs : InitOver(store)

NextDisabled ==
    \/ Next
    \/ \E n \in NameInputs : ResolveView(n, EnvOK)

SpecDisabled == InitDisabled /\ [][NextDisabled]_vars

-----------------------------------------------------------------------------
(* A catalog that starts without views and is given views over views.      *)

ChainNames == <<"v1", "v2", "v3", "v4", "v5">>

\* the i-th namespace of the chain; the 0-th is a physical collection
ChainNs(i) == IF i = 0 THEN Nss(DbName, "c0") ELSE Nss(DbName, ChainNames[i])

ChainLen == kMaxViewDepth + 1

InitChain ==
    /\ enableViews = TRUE
    /\ InitOver(EmptyMap)

NextChain ==
    \/ \E i \in 1..ChainLen, j \in 0..ChainLen :
            j <= i /\ CreateView(ChainNs(i), ChainNs(j), <<>>, EnvOK)
    \/ CommitStep
    \/ AbortStep

SpecChain == InitChain /\ [][NextChain]_vars

-----------------------------------------------------------------------------
(* Resolution over the view documents a store may hold.                    *)

ResolveNames == <<"a", "b", "c">>

PipelineInputs == { <<>>, <<Match1>>, <<Match2>>, <<Match1, Match2>>, <<CollStats>> }

\* what the store may hold for the i-th name: nothing, or a view over a later
\* name or over the physical collection
DocInputs(i) ==
    { {} } \cup
    { { ViewDoc(Nss(DbName, ResolveNames[i]), t, p) } :
        t \in { Nss(DbName, ResolveNames[j]) : j \in (i + 1)..Len(ResolveNames) }
                \cup { Nss(DbName, "c0") },
        p \in PipelineInputs }

ResolveStores ==
    { StoreOf(x \cup y \cup z) :
        x \in DocInputs(1), y \in DocInputs(2), z \in DocInputs(3) }

ResolveInputs ==
    { Nss(DbName, ResolveNames[i]) : i \in 1..Len(ResolveNames) }
        \cup { Nss(DbName, "c0") }

InitResolve ==
    /\ enableViews = TRUE
    /\ \E store \in ResolveStores : InitOver(store)

NextResolve ==
    \/ \E n \in ResolveInputs : ResolveView(n, EnvOK)
    \/ ReloadIfNeeded(EnvOK)
    \/ Invalidate

SpecResolve == InitResolve /\ [][NextResolve]_vars

-----------------------------------------------------------------------------
(* A reader that keeps the pointer lookup gave it while the catalog moves. *)

ReaderView == Nss(DbName, "a")

ReaderDefInputs == { Nss(DbName, "b"), Nss(DbName, "c0") }

InitReaders ==
    /\ enableViews = TRUE
    /\ InitOver(StoreOf({ ViewDoc(ReaderView, Nss(DbName, "c0"), <<>>) }))

NextReaders ==
    \/ LookupView(ns(ReaderView), EnvOK, TRUE)
    \/ Release
    \/ \E t \in ReaderDefInputs : CreateView(ReaderView, t, <<>>, EnvOK)
    \/ \E t \in ReaderDefInputs : ModifyView(ReaderView, t, <<>>, EnvOK)
    \/ DropView(ReaderView, EnvOK)
    \/ ReloadIfNeeded(EnvOK)
    \/ Invalidate
    \/ AbortStep
    \/ CommitStep

SpecReaders == InitReaders /\ [][NextReaders]_vars

-----------------------------------------------------------------------------
(* The catalog over a store whose iteration may fail.                      *)

StoreIOError == "StoreIOError"

\* the iteration completes, or fails after the callback saw some documents
IterateInputs ==
    { EnvOK } \cup
    { [iterate |-> StoreIOError, loaded |-> seen, visited |-> {}] :
        seen \in SUBSET { ns(n) : n \in NameInputs } }

FailingDefInputs == { [viewOn |-> Nss(DbName, "c0"), pipeline |-> <<>>] }

NextStoreFails ==
    \/ \E n \in NameInputs, d \in FailingDefInputs, env \in IterateInputs :
            CreateView(n, d.viewOn, d.pipeline, env)
    \/ \E n \in NameInputs, d \in FailingDefInputs, env \in IterateInputs :
            ModifyView(n, d.viewOn, d.pipeline, env)
    \/ \E n \in NameInputs, env \in IterateInputs : DropView(n, env)
    \/ \E n \in NameInputs, env \in IterateInputs : LookupView(ns(n), env, FALSE)
    \/ \E n \in NameInputs, env \in IterateInputs : ResolveView(n, env)
    \/ \E env \in IterateInputs : ReloadIfNeeded(env)
    \/ Invalidate
    \/ AbortStep
    \/ CommitStep

SpecStoreFails == Init /\ [][NextStoreFails]_vars

-----------------------------------------------------------------------------
(* Chains of views, created and then resolved.                             *)

NextChainResolve ==
    \/ NextChain
    \/ \E i \in 0..ChainLen : ResolveView(ChainNs(i), EnvOK)

SpecChainResolve == InitChain /\ [][NextChainResolve]_vars

-----------------------------------------------------------------------------
(* The catalog given pipelines that do not parse, in calls and in the store. *)

ValidationPipelines == { <<>>, <<Bogus>> }

ValidationDefInputs ==
    { [viewOn |-> Nss(DbName, x), pipeline |-> p] :
        x \in ViewNames, p \in ValidationPipelines }

\* the cached views a refresh of the graph gets through before it meets one
\* whose pipeline does not parse
RefreshInputs ==
    { [iterate |-> OK, loaded |-> {}, visited |-> seen] :
        seen \in SUBSET { ns(n) : n \in NameInputs } }

ValidationStores ==
    { StoreOf({ ViewDoc(Nss(DbName, "b"), Nss(DbName, "c0"), <<>>) }),
      StoreOf({ ViewDoc(Nss(DbName, "a"), Nss(DbName, "c0"), <<Bogus>>),
                ViewDoc(Nss(DbName, "b"), Nss(DbName, "c0"), <<>>) }) }

InitValidation ==
    /\ enableViews = TRUE
    /\ \E store \in ValidationStores : InitOver(store)

NextValidation ==
    \/ \E n \in NameInputs, d \in ValidationDefInputs, env \in RefreshInputs :
            CreateView(n, d.viewOn, d.pipeline, env)
    \/ \E n \in NameInputs, d \in ValidationDefInputs, env \in RefreshInputs :
            ModifyView(n, d.viewOn, d.pipeline, env)
    \/ \E n \in NameInputs : DropView(n, EnvOK)
    \/ ReloadIfNeeded(EnvOK)
    \/ Invalidate
    \/ AbortStep
    \/ CommitStep

SpecValidation == InitValidation /\ [][NextValidation]_vars

-----------------------------------------------------------------------------
(* A reader's lookup beside a writer's transaction.                        *)

NextLock ==
    \/ ReaderLocks
    \/ \E n \in NameInputs : ReaderLooksUp(ns(n), EnvOK)
    \/ \E n \in NameInputs, d \in FailingDefInputs :
            Locked(CreateView(n, d.viewOn, d.pipeline, EnvOK))
    \/ \E n \in NameInputs, d \in FailingDefInputs :
            Locked(ModifyView(n, d.viewOn, d.pipeline, EnvOK))
    \/ \E n \in NameInputs : Locked(DropView(n, EnvOK))
    \/ AbortStep
    \/ CommitStep

SpecLock == Init /\ [][NextLock]_vars

-----------------------------------------------------------------------------
(* Reloads of a cache whose store other writers change.                    *)

WrittenDocs ==
    { ViewDoc(n, Nss(DbName, "c0"), p) : n \in NameInputs, p \in { <<>>, <<Match2>> } }

NextReload ==
    \/ \E d \in WrittenDocs, remove \in BOOLEAN : ExternalWrite(d._id, d, remove)
    \/ \E env \in IterateInputs : ReloadIfNeeded(env)
    \/ \E n \in NameInputs, env \in IterateInputs : LookupView(ns(n), env, FALSE)

SpecReload == Init /\ [][NextReload]_vars

-----------------------------------------------------------------------------
(* Transactions of several mutations, aborted or committed.                *)

InitTxn ==
    /\ enableViews = TRUE
    /\ \E store \in StoreInputs : InitOverFor(store, MaxTxnOps + 1)

NextTxn ==
    \/ \E n \in NameInputs, d \in FailingDefInputs :
            CreateView(n, d.viewOn, d.pipeline, EnvOK)
    \/ \E n \in NameInputs, d \in FailingDefInputs :
            ModifyView(n, d.viewOn, d.pipeline, EnvOK)
    \/ \E n \in NameInputs : DropView(n, EnvOK)
    \/ AbortStep
    \/ CommitStep

SpecTxn == InitTxn /\ [][NextTxn]_vars

-----------------------------------------------------------------------------
(* The dependency graph beside a cache that mutations and reloads change.  *)

GraphDefInputs ==
    { [viewOn |-> Nss(DbName, x), pipeline |-> <<>>] : x \in ViewNames }

NextGraph ==
    \/ \E n \in NameInputs, d \in GraphDefInputs :
            CreateView(n, d.viewOn, d.pipeline, EnvOK)
    \/ \E n \in NameInputs, d \in GraphDefInputs :
            ModifyView(n, d.viewOn, d.pipeline, EnvOK)
    \/ \E n \in NameInputs : DropView(n, EnvOK)
    \/ \E d \in WrittenDocs, remove \in BOOLEAN : ExternalWrite(d._id, d, remove)
    \/ \E n \in NameInputs : LookupView(ns(n), EnvOK, FALSE)
    \/ AbortStep
    \/ CommitStep

SpecGraph == Init /\ [][NextGraph]_vars

-----------------------------------------------------------------------------
(* The invalidation signal beside a writer inside createView or dropView.  *)

NextAssert ==
    \/ \E op \in {"createView", "dropView"}, n \in NameInputs :
            WriterLooksUp(op, n, EnvOK)
    \/ \E n \in NameInputs, d \in FailingDefInputs :
            CreateContinues(n, d.viewOn, d.pipeline, EnvOK)
    \/ \E n \in NameInputs : DropContinues(n)
    \/ Invalidate
    \/ Locked(AbortStep)
    \/ Locked(CommitStep)

SpecAssert == Init /\ [][NextAssert]_vars

-----------------------------------------------------------------------------
(* Properties.                                                             *)

\* the catalog, the store and the registered reactions are as before the step
CatalogUnchanged ==
    UNCHANGED <<_viewMap, _valid, _viewGraph, _viewGraphNeedsRefresh,
                durable, committed, onRollback, onCommit>>

\* the cache, as the view documents it stands for
CacheDocs ==
    [k \in DOMAIN _viewMap |->
        ViewDoc(defName(_viewMap[k]), defViewOn(_viewMap[k]), _viewMap[k].pipeline)]

\* the edges of a graph that holds exactly the views of a cache
CacheGraph(viewMap) ==
    UNION { { <<k, ns(r)>> :
                r \in {defViewOn(viewMap[k])}
                    \cup getInvolvedCollections(viewMap[k].db, viewMap[k].pipeline) } :
            k \in DOMAIN viewMap }

\* the step ends an abort whose transaction made one call, a successful
\* modifyView of the view `key`
AbortOfOneModifyEnds(key) ==
    /\ phase = "aborting"
    /\ phase' = "idle"
    /\ Len(onRollback) = 2
    /\ Len(onCommit) = 1
    /\ onRollback[1] = RestoreOnRollback(key, onRollback[1].saved)
    /\ onRollback[2] = EraseOnRollback(key)

\* C1: a view modified in a transaction that aborts, its rollback reactions
\* run in registration order, is found again by the next lookup with the
\* definition (viewOn and pipeline) it had before the modifyView.
C1_RollbackRestoresModified ==
    [][\A n \in NameInputs :
          AbortOfOneModifyEnds(ns(n)) =>
              LET l == lookup(Catalog', EnvOK, ns(n))
              IN  l.found /\ l.view = onRollback[1].saved]_vars

\* C7: with no transaction in flight and the validity flag true, the view
\* cache holds exactly the view documents of the durable store.
C7_CacheMirrorsStore ==
    (phase = "idle" /\ ~InFlight /\ _valid) => CacheDocs = durable

\* C2: with A cached as a view over B and B not a view (or with B = A),
\* createView(B over A) fails with GraphCycleOrTooDeep and leaves cache,
\* store, graph and both flags as they were (stated for a call that starts
\* with a valid cache and a graph that is not stale).
C2_CycleRejected ==
    [][\A a \in NameInputs, b \in NameInputs :
          ( /\ _valid
            /\ ~_viewGraphNeedsRefresh
            /\ ns(b) \notin DOMAIN _viewMap
            /\ \/ a = b
               \/ ns(a) \in DOMAIN _viewMap /\ defViewOn(_viewMap[ns(a)]) = b
            /\ CreateView(b, a, <<>>, EnvOK) )
          => (last'.status = "GraphCycleOrTooDeep" /\ CatalogUnchanged)]_vars

\* C6: with view support enabled, createView, and in any case modifyView,
\* called with a viewOn of another database than the view's returns BadValue
\* (InvalidArgument), changes neither cache, store, graph nor flags and
\* registers no reaction, whatever the state of the catalog.
C6_CrossDatabaseRejected ==
    [][\A n \in NameInputs, d \in DefInputs :
          (n.db # d.viewOn.db) =>
              /\ (enableViews /\ CreateView(n, d.viewOn, d.pipeline, EnvOK))
                    => (last'.status = "BadValue" /\ CatalogUnchanged)
              /\ ModifyView(n, d.viewOn, d.pipeline, EnvOK)
                    => (last'.status = "BadValue" /\ CatalogUnchanged)]_vars

\* a cross-database modifyView was rejected on an invalid cache over a store
\* that holds views
C6_Witness ==
    /\ last.op = "modifyView"
    /\ last.status = "BadValue"
    /\ ~_valid
    /\ DOMAIN durable # {}

\* the step is a successful dropView of the view `key`
DropSucceeds(key) ==
    \E n \in NameInputs :
        ns(n) = key /\ DropView(n, EnvOK) /\ last'.status = OK

\* the step runs the rollback reaction at position fired + 1
RollbackRuns == phase' = "aborting" /\ fired' = fired + 1

\* the step is a create or modify of `n` that got as far as the graph
ValidatedInsert(n) ==
    /\ \E d \in DefInputs : \/ CreateView(n, d.viewOn, d.pipeline, EnvOK)
                             \/ ModifyView(n, d.viewOn, d.pipeline, EnvOK)
    /\ last'.status \in {OK, "GraphCycleOrTooDeep"}

\* C9: dropView registers a rollback reaction holding the definition it
\* dropped; when that reaction has run the cache maps the view to that
\* definition again and needsRefresh is true; and a validated insert that
\* finds needsRefresh true rebuilds the graph from the cache first.
C9_DropRollback ==
    [][/\ \A n \in NameInputs :
            DropSucceeds(ns(n)) =>
                LET l == lookup(Catalog, EnvOK, ns(n))
                IN  /\ l.found
                    /\ ns(n) \notin DOMAIN _viewMap'
                    /\ onRollback' = Append(onRollback,
                                            RestoreStaleOnRollback(ns(n), l.view))
       /\ (RollbackRuns /\ onRollback[fired'].kind = "restoreStale") =>
            /\ onRollback[fired'].key \in DOMAIN _viewMap'
            /\ _viewMap'[onRollback[fired'].key] = onRollback[fired'].saved
            /\ _viewGraphNeedsRefresh'
       /\ \A n \in NameInputs :
            (_viewGraphNeedsRefresh /\ ValidatedInsert(n)) =>
                /\ ~_viewGraphNeedsRefresh'
                /\ _viewGraph' = IF last'.status = OK
                                  THEN CacheGraph(_viewMap')
                                  ELSE graphRemove(CacheGraph(_viewMap'), n)]_vars

\* the rollback reaction of a dropView has just run and put the view back
C9_Witness ==
    /\ phase = "aborting"
    /\ fired >= 1
    /\ onRollback[fired].kind = "restoreStale"
    /\ onRollback[fired].key \in DOMAIN _viewMap
    /\ _viewMap[onRollback[fired].key] = onRollback[fired].saved
    /\ _viewGraphNeedsRefresh

\* the cache as the next call finds it, reloaded from the store if invalid
CacheAtCall == reloadIfNeeded(Catalog, EnvOK).c.viewMap

\* C10: with view support disabled createView returns CommandNotSupported
\* (FeatureDisabled) for every argument and changes nothing; no other
\* operation returns that status: dropView removes a cached view, modifyView
\* replaces one, lookup hands out the cached definition and resolveView
\* resolves, as they do with view support enabled.
C10_OnlyCreateGated ==
    [][~enableViews =>
        /\ \A n \in NameInputs, d \in DefInputs :
              CreateView(n, d.viewOn, d.pipeline, EnvOK)
                  => (last'.status = "CommandNotSupported" /\ CatalogUnchanged)
        /\ last'.op # "createView" => last'.status # "CommandNotSupported"
        /\ \A n \in NameInputs :
              DropView(n, EnvOK) =>
                  IF ns(n) \in DOMAIN CacheAtCall
                  THEN /\ last'.status = OK
                       /\ ns(n) \notin DOMAIN _viewMap'
                       /\ ns(n) \notin DOMAIN durable'
                  ELSE last'.status = "NamespaceNotFound" /\ durable' = durable
        /\ \A n \in NameInputs, d \in DefInputs :
              ( /\ ModifyView(n, d.viewOn, d.pipeline, EnvOK)
                /\ n.db = d.viewOn.db
                /\ ns(n) \in DOMAIN CacheAtCall
                /\ validCollectionName(d.viewOn.coll) )
              => /\ last'.status \in {OK, "GraphCycleOrTooDeep"}
                 /\ last'.status = OK =>
                       /\ _viewMap'[ns(n)] =
                              ViewDefinition(n.db, n.coll, d.viewOn.coll, d.pipeline)
                       /\ durable'[ns(n)] = ViewDoc(n, d.viewOn, d.pipeline)
        /\ \A n \in NameInputs :
              LookupView(ns(n), EnvOK, FALSE) =>
                  /\ last'.status = OK
                  /\ last'.view = IF ns(n) \in DOMAIN CacheAtCall
                                   THEN CacheAtCall[ns(n)] ELSE NoView
        /\ \A n \in NameInputs :
              ResolveView(n, EnvOK) =>
                  /\ last'.status \in {OK, "ViewDepthLimitExceeded"}
                  /\ ns(n) \notin DOMAIN CacheAtCall
                        => (last'.status = OK /\ last'.nss = n /\ last'.pipeline = <<>>)
                  /\ ns(n) \in DOMAIN CacheAtCall
                        => last'.nss # n \/ last'.status # OK]_vars

\* createView was refused for the missing feature in a transaction that has
\* already changed a view
C10_Witness ==
    /\ ~enableViews
    /\ last.op = "createView"
    /\ last.status = "CommandNotSupported"
    /\ onCommit # <<>>
    /\ DOMAIN _viewMap # {}

\* the cache of a chain of k views: v1 over the physical collection and each
\* next one over the one before, all with empty pipelines
ChainCache(k) ==
    [key \in { ns(ChainNs(i)) : i \in 1..k } |->
        LET i == CHOOSE j \in 1..k : ns(ChainNs(j)) = key
        IN  ViewDefinition(DbName, ChainNames[i], ChainNs(i - 1).coll, <<>>)]

\* C3: on a catalog whose views are exactly the chain v1 .. vk, creating
\* v(k+1) over vk (v1 over the physical collection when k = 0) succeeds for
\* every k < kMaxViewDepth and fails with GraphCycleOrTooDeep for
\* k = kMaxViewDepth.
C3_DepthBound ==
    [][\A k \in 0..kMaxViewDepth :
          (CacheAtCall = ChainCache(k)
                /\ CreateView(ChainNs(k + 1), ChainNs(k), <<>>, EnvOK))
          => last'.status = IF k < kMaxViewDepth THEN OK
                            ELSE "GraphCycleOrTooDeep"]_vars

\* the view one too many was refused on top of a chain of kMaxViewDepth views
C3_Witness ==
    /\ last.op = "createView"
    /\ last.status = "GraphCycleOrTooDeep"
    /\ _valid
    /\ _viewMap = ChainCache(kMaxViewDepth)

\* the pipeline is not empty and its first stage is a $collStats stage
CollStatsFirst(pipeline) == pipeline # <<>> /\ Head(pipeline).name = "$collStats"

\* the views met from `nss` on by following viewOn, at most `fuel` of them
RECURSIVE Hops(_, _, _)
Hops(cache, nss, fuel) ==
    IF fuel = 0 \/ ns(nss) \notin DOMAIN cache
    THEN <<>>
    ELSE <<cache[ns(nss)]>> \o Hops(cache, defViewOn(cache[ns(nss)]), fuel - 1)

\* the stages of the first j views of a chain, the j-th view's first
RECURSIVE Stacked(_, _)
Stacked(hops, j) ==
    IF j = 0 THEN <<>> ELSE hops[j].pipeline \o Stacked(hops, j - 1)

\* C4: resolveView of n0, where n0 over n1 over ... over nk are cached views,
\* k < kMaxViewDepth, nk is not a view and no pipeline of the chain starts
\* with $collStats, returns base nk and the pipelines of the chain
\* concatenated with the innermost view's stages first and n0's last.
C4_ResolutionComposition ==
    [][\A n \in ResolveInputs :
          ResolveView(n, EnvOK) =>
              LET h == Hops(CacheAtCall, n, kMaxViewDepth + 1)
              IN  ( /\ Len(h) < kMaxViewDepth
                    /\ \A i \in 1..Len(h) : ~CollStatsFirst(h[i].pipeline) )
                  => /\ last'.status = OK
                     /\ last'.nss = IF h = <<>> THEN n ELSE defViewOn(h[Len(h)])
                     /\ last'.pipeline = Stacked(h, Len(h))]_vars

\* a over b with [s1] and b over c0 with [s2] resolved to c0 and [s2, s1]
C4_Witness ==
    /\ last.op = "resolveView"
    /\ last.status = OK
    /\ last.key = <<DbName, "a">>
    /\ {<<DbName, "a">>, <<DbName, "b">>} \subseteq DOMAIN _viewMap
    /\ _viewMap[<<DbName, "a">>].pipeline = <<Match1>>
    /\ _viewMap[<<DbName, "a">>].viewOn = "b"
    /\ _viewMap[<<DbName, "b">>].pipeline = <<Match2>>
    /\ last.nss = Nss(DbName, "c0")
    /\ last.pipeline = <<Match2, Match1>>

\* the position of the first view of a chain whose pipeline starts with
\* $collStats, 0 if there is none
FirstCollStats(hops) ==
    LET at == { i \in 1..Len(hops) : CollStatsFirst(hops[i].pipeline) }
    IN  IF at = {} THEN 0 ELSE CHOOSE i \in at : \A j \in at : i <= j

\* C5: when the j-th view of the chain from n0 (j <= kMaxViewDepth) is the
\* first whose pipeline starts with $collStats, resolveView(n0) returns that
\* view's viewOn as base, whether or not it names a cached view, and the
\* stages of the first j views, the j-th view's first.
C5_CollStatsShortCircuit ==
    [][\A n \in ResolveInputs :
          ResolveView(n, EnvOK) =>
              LET h == Hops(CacheAtCall, n, kMaxViewDepth)
                  j == FirstCollStats(h)
              IN  j > 0 =>
                     /\ last'.status = OK
                     /\ last'.nss = defViewOn(h[j])
                     /\ last'.pipeline = Stacked(h, j)]_vars

\* resolution stopped at a $collStats view whose viewOn names a cached view
C5_Witness ==
    /\ last.op = "resolveView"
    /\ last.status = OK
    /\ last.key \in DOMAIN _viewMap
    /\ last.pipeline # <<>>
    /\ last.pipeline[1] = CollStats
    /\ ns(last.nss) \in DOMAIN _viewMap

\* C8: a definition handed out by lookup is still alive for as long as the
\* reader holds it, whatever modifyView, dropView, a reload or a rollback
\* reaction does to the cache meanwhile.
C8_SnapshotStaysValid == held.has => held.live

\* C11: once a call has failed with the store's iteration error the validity
\* flag is false for as long as no later call has reloaded the cache, and a
\* call made then either fails with the iteration error again or answers
\* from a cache reloaded in full.
C11_FailedReloadStaysInvalid ==
    [][last.status = StoreIOError =>
         /\ ~_valid
         /\ \A n \in NameInputs, env \in IterateInputs :
               LookupView(ns(n), env, FALSE) =>
                   \/ last'.status = StoreIOError /\ ~_valid'
                   \/ /\ env = EnvOK
                      /\ last'.status = OK
                      /\ last'.view = IF ns(n) \in DOMAIN durable
                                       THEN DefOfDoc(durable[ns(n)]) ELSE NoView]_vars

\* the graph holds a cycle or a path of more than kMaxViewDepth hops
GraphTooDeep(graph) == \E e \in graph : tooDeep(graph, e[1], 0)

\* C12: resolveView returns ViewDepthLimitExceeded only in a state whose
\* dependency graph holds a cycle or a chain longer than kMaxViewDepth; the
\* last view of an accepted chain of exactly kMaxViewDepth views resolves.
C12_DepthErrorNeedsBrokenGraph ==
    [][\A i \in 0..ChainLen :
          (ResolveView(ChainNs(i), EnvOK)
                /\ last'.status = "ViewDepthLimitExceeded")
          => GraphTooDeep(_viewGraph')]_vars

\* the step is a createView or modifyView of `n` that the validation against
\* the graph refused: a cycle or too deep a chain, a pipeline that does not
\* parse, or a cached view that does not parse during the refresh
ValidationFails(n) ==
    /\ last'.status \in {"GraphCycleOrTooDeep", "Location40255", "PipelineParseError"}
    /\ \E d \in ValidationDefInputs, env \in RefreshInputs :
            \/ CreateView(n, d.viewOn, d.pipeline, env)
            \/ ModifyView(n, d.viewOn, d.pipeline, env)

\* C13 as stated: a createView or modifyView that fails in the validation
\* leaves the durable store and the view cache exactly as they were before
\* the call.
C13_NoPartialState ==
    [][\A n \in NameInputs :
          ValidationFails(n) => (durable' = durable /\ _viewMap' = _viewMap)]_vars

\* C13, amended: a createView or modifyView that fails in the validation
\* leaves the durable store as it was and the view cache as the call's own
\* lazy reload left it (as it was, when the call started on a valid cache):
\* no upsert reached the store and no entry was installed or replaced.
C13_NoPartialStateAfterReload ==
    [][\A n \in NameInputs :
          ValidationFails(n) => (durable' = durable /\ _viewMap' = CacheAtCall)]_vars

\* a modifyView of a cached view was refused for its unparsable pipeline
C13_Witness ==
    /\ last.op = "modifyView"
    /\ last.status = "Location40255"
    /\ _valid
    /\ DOMAIN _viewMap # {}

\* C14: a createView or modifyView refused by the validated insert into a
\* graph that is not stale leaves the graph exactly as it was, the edges the
\* view had before a refused modifyView included.
C14_FailedInsertKeepsGraph ==
    [][\A n \in NameInputs :
          (~_viewGraphNeedsRefresh /\ ValidationFails(n))
          => _viewGraph' = _viewGraph]_vars

\* C15: while a reader's thread is inside lookup's locked section nothing
\* but that lookup writes the view cache, the dependency graph, the
\* validity flag or the needsRefresh flag: every other write, those of the
\* rollback and commit reactions included, waits for the lock.
C15_WritesHoldTheLock ==
    [][(_mutex = "reader" /\ _mutex' = "reader")
          => UNCHANGED <<_viewMap, _viewGraph, _valid, _viewGraphNeedsRefresh>>]_vars

\* the step is a createView or modifyView of `n` that gets as far as the
\* graph: the name is free for a create, taken for a modify
ReachesGraph(n) ==
    \E d \in ValidationDefInputs, env \in RefreshInputs :
        \/ ns(n) \notin DOMAIN CacheAtCall /\ CreateView(n, d.viewOn, d.pipeline, env)
        \/ ns(n) \in DOMAIN CacheAtCall /\ ModifyView(n, d.viewOn, d.pipeline, env)

\* every view of the cache the call works on has a pipeline that parses
CacheParses == \A k \in DOMAIN CacheAtCall : parseOK(CacheAtCall[k].pipeline)

\* C16: a createView or modifyView that finds needsRefresh set and a cached
\* view whose pipeline does not parse returns that parse error, leaves
\* needsRefresh set and writes neither store nor cache (the cache is as the
\* call's lazy reload left it); one that finds needsRefresh set and every
\* cached pipeline parsing rebuilds the graph from the whole cache and
\* clears needsRefresh; and nothing else ever clears needsRefresh.
C16_RefreshFailureRetried ==
    [][/\ _viewGraphNeedsRefresh =>
            \A n \in NameInputs :
                ReachesGraph(n) =>
                    IF CacheParses
                    THEN /\ ~_viewGraphNeedsRefresh'
                         /\ last'.status \in {OK, "GraphCycleOrTooDeep", "Location40255"}
                         /\ _viewGraph' = IF last'.status = OK
                                           THEN CacheGraph(_viewMap')
                                           ELSE graphRemove(CacheGraph(CacheAtCall), n)
                    ELSE /\ last'.status = "PipelineParseError"
                         /\ _viewGraphNeedsRefresh'
                         /\ _viewMap' = CacheAtCall
                         /\ durable' = durable
       /\ (_viewGraphNeedsRefresh /\ ~_viewGraphNeedsRefresh') => CacheParses]_vars

\* a call has just failed in the refresh, part of the cache replayed, and the
\* graph is still marked stale
C16_Witness ==
    /\ last.op \in {"createView", "modifyView"}
    /\ last.status = "PipelineParseError"
    /\ _viewGraphNeedsRefresh
    /\ _viewGraph # {}
    /\ _viewGraph # CacheGraph(_viewMap)

\* the definitions of the view documents of a store
StoreViews(store) == [k \in DOMAIN store |-> DefOfDoc(store[k])]

\* C17: reloadIfNeeded on a valid cache returns OK and changes nothing; a
\* successful reload of an invalid cache leaves exactly the definitions of
\* the store's documents, whatever the cache held, so that a second reload
\* with no write to the store in between gives the same cache again.
C17_ReloadIdempotent ==
    [][/\ _valid =>
            \A env \in IterateInputs :
                reloadIfNeeded(Catalog, env) = [c |-> Catalog, status |-> OK]
       /\ \A env \in IterateInputs :
            (ReloadIfNeeded(env) /\ last'.status = OK) =>
                LET again == reloadIfNeeded([Catalog' EXCEPT !.valid = FALSE], EnvOK)
                IN  /\ _valid'
                    /\ _viewMap' = StoreViews(durable)
                    /\ again.status = OK
                    /\ again.c.viewMap = _viewMap']_vars

\* a reload has just succeeded over a store that lacks one of the views
C17_Witness ==
    /\ last.op = "reloadIfNeeded"
    /\ last.status = OK
    /\ _valid
    /\ _viewMap = StoreViews(durable)
    /\ held = NoHandle
    /\ DOMAIN durable # { ns(n) : n \in NameInputs }

\* C18: invariant(_valid.load()) holds whenever createView, modifyView or
\* dropView reaches it, also when the invalidation signal arrives between the
\* call's lazy reload and the assertion.
C18_ValidityAssertionsHold == last.status # "InvariantFailure"

\* the namespaces the aborting transaction's mutations touched
TouchedKeys == { onRollback[i].key : i \in 1..Len(onRollback) }

\* the rollback reaction the transaction registered first for `key`: it
\* carries what the cache held for `key` before the transaction's first
\* mutation of it
FirstReaction(key) ==
    onRollback[CHOOSE i \in 1..Len(onRollback) :
                   /\ onRollback[i].key = key
                   /\ \A j \in 1..(i - 1) : onRollback[j].key # key]

\* C19: when every rollback reaction of an aborted transaction has fired, in
\* registration order, the cache holds for every namespace the transaction
\* touched what it held before the transaction's first mutation: nothing
\* where the first mutation created the view, the saved definition where
\* it modified or dropped it.
C19_AbortRestoresCache ==
    (phase = "aborting" /\ fired = Len(onRollback)) =>
        \A key \in TouchedKeys :
            IF FirstReaction(key).kind = "erase"
            THEN key \notin DOMAIN _viewMap
            ELSE /\ key \in DOMAIN _viewMap
                 /\ _viewMap[key] = FirstReaction(key).saved

\* C19 for the transactions that never call modifyView: a dropView and a
\* createView of one namespace are enough.
C19_AbortRestoresDropThenCreate ==
    (\A i \in 1..Len(onRollback) : onRollback[i].kind # "restore")
        => C19_AbortRestoresCache

\* C20: whenever the cache is valid and the graph is not marked stale, the
\* graph holds exactly the cached views: a node for each of them, with edges
\* to its viewOn and to the namespaces of its pipeline, and no other node.
C20_GraphTracksCache ==
    (_valid /\ ~_viewGraphNeedsRefresh) => _viewGraph = CacheGraph(_viewMap)

\* C20 for the lazy reload alone: a lookup made while the graph tracks the
\* cache leaves a graph that tracks the cache.
C20_ReloadKeepsGraphTracking ==
    [][(last'.op = "lookup" /\ C20_GraphTracksCache) => C20_GraphTracksCache']_vars

====
